---- MODULE Spec2Model ----
(***************************************************************************)
(* Model of src/main.py: ReachyGeminiChat, the asyncio bridge that streams *)
(* microphone audio and camera frames to a live session and plays the      *)
(* session's audio back.                                                   *)
(*                                                                         *)
(* One event loop runs run() and the three duty cycles.  A coroutine runs  *)
(* without interruption from one await to the next, so every action below  *)
(* is one such segment.  The only place a segment is split is a            *)
(* synchronous device call of a duty cycle (get_audio_sample, get_frame,   *)
(* push_audio_sample): the call is entered in one action and returns in    *)
(* another, and while it has not returned the variable blocked names the   *)
(* coroutine that holds the loop's thread.                                 *)
(*                                                                         *)
(* Time is counted in units of 10 ms.                                      *)
(*                                                                         *)
(* Spec is the chat.  SpecResample applies the sample-rate conversions of  *)
(* the two audio duty cycles to one chunk.  SpecQuiz is the run() of the   *)
(* two quiz games, src/quiz_game.py and src/quiz_voice.py.                 *)
(***************************************************************************)
EXTENDS Integers, Sequences, FiniteSets

\* ---- program constants, in units of 10 ms ----
AudioIdleSleep == 1       \* asyncio.sleep(0.01)
AudioBackoff == 10        \* asyncio.sleep(0.1)
VideoIdleSleep == 10      \* asyncio.sleep(0.1)
VideoBackoff == 50        \* asyncio.sleep(0.5)
VIDEO_FPS == 1
VideoThrottle == 100 \div VIDEO_FPS   \* asyncio.sleep(1.0 / VIDEO_FPS)
RecvBackoff == 10         \* asyncio.sleep(0.1)
\* ---- program constants, in Hz ----
SAMPLE_RATE_INPUT == 16000
SAMPLE_RATE_OUTPUT == 24000

\* ---- bounds ----
MaxSent == 2              \* frames counted
MaxLen == 12              \* samples in a chunk
MaxRounds == 3            \* rounds of a quiz game
\* sample rates a device may report, in Hz
Rates == {8000, 16000, 22050, 24000, 44100, 48000}

Tasks == {"audio", "video", "recv"}
Done == {"returned", "raised", "cancelled"}
\* positions at which a duty cycle is suspended in an await
Suspended == {"new", "idle_sleep", "backoff", "throttle", "sending", "await_event"}
Sleeping == {"idle_sleep", "backoff", "throttle"}

VARIABLES
  running,      \* self.running
  reachy,       \* self.reachy: "none", "created" (constructed), "entered", "exited"
  recording,    \* media.start_recording() in effect
  playing,      \* media.start_playing() in effect
  session,      \* self.session: "none", "open", "closed"
  m_pc,         \* position of main() and run(): "main", "exit" (main returned
                \* without a chat), "idle" (chat constructed), "connect",
                \* "gather", "closing", "done"
  run_exc,      \* exception travelling through run(); at "done", the one that escapes
  start_failed, \* which part of start() raised: "none", "device", "connect"
  stopCalls,    \* number of times stop() was entered
  log,          \* cleanup calls made by stop(), in order
  pc,           \* position of each duty cycle
  timer,        \* remaining time of each duty cycle's asyncio.sleep
  blocked,      \* coroutine inside a synchronous device call, or "none"
  stalled,      \* time has passed since that call was entered
  handed,       \* times the item a duty cycle holds has been given to its sink
  turn_state,   \* the turn audio-down iterates: "fresh" (receive() called at
                \* the start, after a turn that yielded a response or after
                \* a sleep; nothing yielded yet), "open" (a response was
                \* yielded), "respun" (receive() called again right after
                \* a turn that ended without yielding anything), "spun"
                \* (receive() called again after a turn that was exhausted
                \* when it was first awaited, so that the loop went round
                \* without the coroutine having been suspended)
  turn_complete,\* server_content.turn_complete of the response being handled
  outer,        \* the gather future: "none", "pending", "exc", "cancelled"
  cancelReq,    \* duty cycles with a cancellation to be delivered
  interrupted,  \* the user interrupt has been delivered
  gap,          \* time since the last frame was sent (capped at VideoThrottle)
  videoSent,    \* frames sent (capped at MaxSent)
  api_key,      \* os.getenv("GEMINI_API_KEY") is set and not empty
  in_rate,      \* reachy_sample_rate, line 93
  out_rate,     \* reachy_output_rate, line 159
  n_samples,    \* length of the chunk the conversions are applied to
  up_out,       \* <<chunk audio-up hands to the session>>, or <<>>
  down_out,     \* <<chunk audio-down hands to playback>>, or <<>>
  trip,         \* <<lengths of a conversion in_rate -> out_rate -> in_rate>>
  game,         \* the quiz: "text" (ReachyQuizGame), "voice" (ReachyVoiceQuiz)
  q_pc,         \* position of the quiz's run(): "run", "loop", "over",
                \* "finally", "stopping", "done"
  score,        \* self.score
  questions_asked, \* self.questions_asked
  round_kind,   \* how the latest play_round went: "none", "no_answer",
                \* "correct", "incorrect", "raised"
  q_playing,    \* run()'s local playing, the value play_round returned
  q_reachy,     \* ReachyVoiceQuiz.reachy: "none", "created", "entered", "exited"
  q_recording,  \* the quiz's media.start_recording() in effect
  q_media_playing, \* the quiz's media.start_playing() in effect
  stop_reachy_calls, \* number of times stop_reachy() was entered
  q_exc,        \* exception that leaves the quiz's run(), or "none"
  audio_hist    \* audio-up so far: "clean" (no iteration failed), "error" (an
                \* iteration failed, nothing sent since), "resumed" (a chunk
                \* was sent after a failed iteration)

mainVars == <<running, reachy, recording, playing, session, m_pc, run_exc,
              start_failed, stopCalls, log>>
recvVars == <<turn_complete, turn_state>>
taskVars == <<pc, timer, blocked, stalled, handed, turn_complete, turn_state>>
envVars == <<api_key>>
chunkVars == <<in_rate, out_rate, n_samples, up_out, down_out, trip>>
quizVars == <<game, q_pc, score, questions_asked, round_kind, q_playing, q_reachy,
              q_recording, q_media_playing, stop_reachy_calls, q_exc>>
gatherVars == <<outer, cancelReq, interrupted>>
obsVars == <<gap, videoSent, audio_hist>>
vars == <<running, reachy, recording, playing, session, m_pc, run_exc,
          start_failed, stopCalls, log, pc, timer, blocked, stalled, handed,
          turn_complete, turn_state, outer, cancelReq, interrupted, gap,
          videoSent, audio_hist, api_key, in_rate, out_rate, n_samples, up_out,
          down_out, trip, game, q_pc, score, questions_asked, round_kind,
          q_playing, q_reachy, q_recording, q_media_playing, stop_reachy_calls,
          q_exc>>

Min(a, b) == IF a < b THEN a ELSE b

\* the process before main() runs; the fields are those __init__ sets
InitChat ==
  /\ running = FALSE
  /\ reachy = "none"
  /\ recording = FALSE
  /\ playing = FALSE
  /\ session = "none"
  /\ m_pc = "main"
  /\ run_exc = "none"
  /\ start_failed = "none"
  /\ stopCalls = 0
  /\ log = <<>>
  /\ pc = [t \in Tasks |-> "none"]
  /\ timer = [t \in Tasks |-> 0]
  /\ blocked = "none"
  /\ stalled = FALSE
  /\ handed = [t \in Tasks |-> 0]
  /\ turn_complete = FALSE
  /\ turn_state = "fresh"
  /\ outer = "none"
  /\ cancelReq = {}
  /\ interrupted = FALSE
  /\ gap = VideoThrottle
  /\ videoSent = 0
  /\ audio_hist = "clean"

\* a quiz object g after its __init__ (quiz_game.py 19-22, quiz_voice.py
\* 25-29), run() not yet entered
InitGame(g) ==
  /\ game = g
  /\ q_pc = "run"
  /\ score = 0
  /\ questions_asked = 0
  /\ round_kind = "none"
  /\ q_playing = TRUE
  /\ q_reachy = "none"
  /\ q_recording = FALSE
  /\ q_media_playing = FALSE
  /\ stop_reachy_calls = 0
  /\ q_exc = "none"

\* the chat, with a device that reports 16 kHz both ways (line 110)
Init ==
  /\ InitChat
  /\ InitGame("text")
  /\ api_key \in BOOLEAN
  /\ in_rate = SAMPLE_RATE_INPUT
  /\ out_rate = SAMPLE_RATE_INPUT
  /\ n_samples = 1
  /\ up_out = <<>>
  /\ down_out = <<>>
  /\ trip = <<>>

\* ------------------------------------------------------------------------
\* main() without the key, as if the check of line 226 were not made
main_no_key_proceeds == m_pc' = "idle"

\* main(), lines 224-232: without the key the error is printed and main()
\* returns; with it the chat object is constructed and run() is called.
main_no_key == m_pc' = "exit"

main ==
  /\ m_pc = "main"
  /\ IF api_key THEN m_pc' = "idle" ELSE main_no_key
  /\ UNCHANGED <<running, reachy, recording, playing, session, run_exc,
                 start_failed, stopCalls, log>>
  /\ UNCHANGED <<taskVars, gatherVars, obsVars>>
  /\ UNCHANGED <<envVars, chunkVars, quizVars>>

\* ------------------------------------------------------------------------
\* stop(): lines 84-89, the device part.  Nothing is awaited here, so it
\* runs to its end or to the first call that raises (f).  lg, rch, rec and
\* play are the values at the point stop() reaches line 84, exc the
\* exception run() is carrying.
DeviceSteps == <<"stop_recording", "stop_playing", "exit">>
StepsUpTo(f) ==
  CASE f = "stop_recording" -> <<"stop_recording">>
    [] f = "stop_playing" -> <<"stop_recording", "stop_playing">>
    [] OTHER -> DeviceSteps

stop_device(lg, rch, rec, play, exc) ==
  /\ m_pc' = "done"
  /\ IF rch # "none"
     THEN \E f \in {"none", "stop_recording", "stop_playing", "exit"} :
            /\ log' = lg \o StepsUpTo(f)
            /\ recording' = IF f = "stop_recording" THEN rec ELSE FALSE
            /\ playing' = IF f \in {"stop_recording", "stop_playing"} THEN play ELSE FALSE
            /\ reachy' = IF f = "none" THEN "exited" ELSE rch
            /\ run_exc' = IF f = "none" THEN exc ELSE "stop_error"
     ELSE /\ log' = lg
          /\ recording' = rec
          /\ playing' = play
          /\ reachy' = rch
          /\ run_exc' = exc

\* stop(), as if running were cleared after the session was closed
stop_clears_running_late(sess, rch, rec, play, exc) ==
  /\ running' = (running /\ sess # "none")
  /\ stopCalls' = stopCalls + 1
  /\ session' = sess
  /\ IF sess # "none"
     THEN /\ m_pc' = "closing"
          /\ log' = Append(log, "close")
          /\ reachy' = rch
          /\ recording' = rec
          /\ playing' = play
          /\ run_exc' = exc
     ELSE stop_device(log, rch, rec, play, exc)

\* stop(), as if line 79 were missing
stop_keeps_running(sess, rch, rec, play, exc) ==
  /\ running' = running
  /\ stopCalls' = stopCalls + 1
  /\ session' = sess
  /\ IF sess # "none"
     THEN /\ m_pc' = "closing"
          /\ log' = Append(log, "close")
          /\ reachy' = rch
          /\ recording' = rec
          /\ playing' = play
          /\ run_exc' = exc
     ELSE stop_device(log, rch, rec, play, exc)

\* stop(): lines 79-82.  running is cleared; with a session object the
\* close() call is made and awaited, otherwise stop() goes on to the device.
stop(sess, rch, rec, play, exc) ==
  /\ running' = FALSE
  /\ stopCalls' = stopCalls + 1
  /\ session' = sess
  /\ IF sess # "none"
     THEN /\ m_pc' = "closing"
          /\ log' = Append(log, "close")
          /\ reachy' = rch
          /\ recording' = rec
          /\ playing' = play
          /\ run_exc' = exc
     ELSE stop_device(log, rch, rec, play, exc)

\* ------------------------------------------------------------------------
\* run() calls start(): lines 45-54, the device part, up to the await of
\* connect.  f is the call that raises, if any; an exception leaves start()
\* and run()'s finally clause calls stop() in the same segment.
DeviceFailures == {"none", "ReachyMini", "enter", "start_recording",
                   "start_playing", "samplerate"}

start ==
  /\ m_pc = "idle"
  /\ \E f \in DeviceFailures :
       LET rch == CASE f = "ReachyMini" -> "none"
                    [] f = "enter" -> "created"
                    [] OTHER -> "entered"
           rec == f \in {"none", "start_playing", "samplerate"}
           play == f \in {"none", "samplerate"}
       IN IF f = "none"
          THEN /\ reachy' = rch
               /\ recording' = rec
               /\ playing' = play
               /\ m_pc' = "connect"
               /\ UNCHANGED <<running, session, run_exc, start_failed,
                              stopCalls, log>>
          ELSE /\ start_failed' = "device"
               /\ stop("none", rch, rec, play, "start_error")
  /\ UNCHANGED <<taskVars, gatherVars, obsVars>>
  /\ UNCHANGED <<envVars, chunkVars, quizVars>>

\* start(), lines 70-75, and run(), lines 204-216: connect returned, running
\* is set, gather() schedules the three duty cycles and run() awaits it.
connect_ok ==
  /\ session' = "open"
  /\ running' = TRUE
  /\ m_pc' = "gather"
  /\ pc' = [t \in Tasks |-> "new"]
  /\ outer' = "pending"
  /\ UNCHANGED <<reachy, recording, playing, run_exc, start_failed,
                 stopCalls, log, timer, blocked, stalled, handed, recvVars,
                 cancelReq, interrupted>>

\* connect raised, as if start() caught the error and went on: running is
\* set and the duty cycles are launched without a session
connect_raise_swallowed ==
  /\ start_failed' = "connect"
  /\ running' = TRUE
  /\ m_pc' = "gather"
  /\ pc' = [t \in Tasks |-> "new"]
  /\ outer' = "pending"
  /\ UNCHANGED <<session, reachy, recording, playing, run_exc, stopCalls, log,
                 timer, blocked, stalled, handed, recvVars, cancelReq,
                 interrupted>>

\* connect raised, as if run() had no finally clause: stop() is not called
connect_raise_no_cleanup ==
  /\ start_failed' = "connect"
  /\ m_pc' = "done"
  /\ run_exc' = "start_error"
  /\ UNCHANGED <<running, session, reachy, recording, playing, stopCalls, log>>
  /\ UNCHANGED <<taskVars, gatherVars>>

\* connect raised: start() is left at line 70, self.session is still None.
connect_raise ==
  /\ start_failed' = "connect"
  /\ stop(session, reachy, recording, playing, "start_error")
  /\ UNCHANGED <<taskVars, gatherVars>>

connect_done ==
  /\ m_pc = "connect"
  /\ \/ connect_ok
     \/ connect_raise
  /\ UNCHANGED obsVars
  /\ UNCHANGED <<envVars, chunkVars, quizVars>>

\* run() resumes from the await of gather (line 212) with the exception the
\* gather future carries, and its finally clause calls stop().  After a
\* cancellation the children were woken before run() (their wake-ups were
\* queued first), so run() resumes when they have all finished.
run_resume ==
  /\ m_pc = "gather"
  /\ blocked = "none"
  /\ outer \in {"exc", "cancelled"}
  /\ cancelReq = {}
  /\ stop(session, reachy, recording, playing,
          IF outer = "exc" /\ ~interrupted THEN "duty_error" ELSE "CancelledError")
  /\ UNCHANGED <<start_failed, taskVars, gatherVars, obsVars>>
  /\ UNCHANGED <<envVars, chunkVars, quizVars>>

\* stop(), line 82: the awaited session.close() returns or raises.  When it
\* raises, the exception leaves stop() and lines 84-89 are not executed.
close_raise ==
  /\ session' \in {"open", "closed"}
  /\ m_pc' = "done"
  /\ run_exc' = "stop_error"
  /\ UNCHANGED <<log, reachy, recording, playing>>

stop_close_done ==
  /\ m_pc = "closing"
  /\ blocked = "none"
  /\ \/ /\ session' = "closed"
        /\ stop_device(log, reachy, recording, playing, run_exc)
     \/ close_raise
  /\ UNCHANGED <<running, start_failed, stopCalls, taskVars, gatherVars, obsVars>>
  /\ UNCHANGED <<envVars, chunkVars, quizVars>>

\* The user interrupt: the runner cancels the task of run() at the await it
\* is suspended in (asyncio.run, line 236).  Cancelling the gather future
\* cancels every duty cycle that has not finished.
interrupt ==
  /\ ~interrupted
  /\ blocked = "none"
  /\ interrupted' = TRUE
  /\ \/ /\ m_pc = "connect"
        /\ stop(session, reachy, recording, playing, "CancelledError")
        /\ UNCHANGED <<start_failed, outer, cancelReq>>
     \/ /\ m_pc = "gather"
        /\ outer = "pending"
        /\ cancelReq' = {t \in Tasks : pc[t] \notin Done}
        /\ UNCHANGED <<mainVars, outer>>
     \/ /\ m_pc = "gather"
        /\ outer = "exc"
        /\ UNCHANGED <<mainVars, outer, cancelReq>>
     \/ /\ m_pc = "closing"
        /\ m_pc' = "done"
        /\ run_exc' = "CancelledError"
        /\ session' \in {"open", "closed"}
        /\ UNCHANGED <<running, reachy, recording, playing, start_failed,
                       stopCalls, log, outer, cancelReq>>
  /\ UNCHANGED <<taskVars, obsVars>>
  /\ UNCHANGED <<envVars, chunkVars, quizVars>>

\* asyncio.run (line 236) cancels the tasks that are still pending once
\* main() has finished.
loop_teardown ==
  /\ m_pc = "done"
  /\ blocked = "none"
  /\ \E t \in Tasks : pc[t] \notin Done \cup {"none"} /\ t \notin cancelReq
  /\ cancelReq' = {t \in Tasks : pc[t] \notin Done \cup {"none"}}
  /\ UNCHANGED <<mainVars, taskVars, outer, interrupted, obsVars>>
  /\ UNCHANGED <<envVars, chunkVars, quizVars>>

\* ------------------------------------------------------------------------
\* The duty cycles.

\* a duty cycle moves to position p with a sleep of tm; b is the coroutine
\* holding the thread afterwards
Goto(t, p, tm, b) ==
  /\ pc' = [pc EXCEPT ![t] = p]
  /\ timer' = [timer EXCEPT ![t] = tm]
  /\ blocked' = b
  /\ stalled' = FALSE
  /\ handed' = [handed EXCEPT ![t] = IF p \in {"sending", "push"}
                                      THEN handed[t] + 1 ELSE 0]
  /\ outer' = outer

\* a duty cycle ends; gather's callback hands the first exception or
\* cancellation of a child to the future run() awaits (line 212)
finish(t, how) ==
  /\ pc' = [pc EXCEPT ![t] = how]
  /\ timer' = [timer EXCEPT ![t] = 0]
  /\ blocked' = "none"
  /\ stalled' = FALSE
  /\ handed' = [handed EXCEPT ![t] = 0]
  /\ outer' = IF outer = "pending" /\ how = "raised" THEN "exc"
              ELSE IF outer = "pending" /\ how = "cancelled" THEN "cancelled"
              ELSE outer

Ready(t) == blocked = "none" /\ t \notin cancelReq

\* ---- capture_and_send_audio ----
\* line 95: while self.running, then line 98 enters get_audio_sample()
audio_head ==
  IF running THEN Goto("audio", "poll", 0, "audio")
             ELSE finish("audio", "returned")

\* the handler, as if it handed the chunk it holds to the session again
audio_except_resend ==
  /\ Goto("audio", "sending", 0, "none")
  /\ audio_hist' = "error"

\* the handler, as if it logged the error and raised it again
audio_except_reraise ==
  /\ finish("audio", "raised")
  /\ audio_hist' = "error"

\* lines 123-125: the handler of the loop body's try
audio_except ==
  /\ Goto("audio", "backoff", AudioBackoff, "none")
  /\ audio_hist' = "error"

\* the empty poll, as if the loop went on without sleeping
audio_idle_nosleep ==
  /\ Goto("audio", "idle_sleep", 0, "none")
  /\ UNCHANGED audio_hist

\* lines 100-102: nothing was captured
audio_idle ==
  /\ Goto("audio", "idle_sleep", AudioIdleSleep, "none")
  /\ UNCHANGED audio_hist

\* line 93, before the loop: the sample-rate query
audio_begin ==
  /\ pc["audio"] = "new"
  /\ Ready("audio")
  /\ \/ finish("audio", "raised")
     \/ audio_head
  /\ UNCHANGED <<mainVars, recvVars, cancelReq, interrupted, obsVars>>
  /\ UNCHANGED <<envVars, chunkVars, quizVars>>

\* lines 98-121: get_audio_sample() returns; nothing, or samples that are
\* folded, resampled, converted and handed to send_realtime_input
audio_poll_return ==
  /\ pc["audio"] = "poll"
  /\ \/ audio_idle
     \/ /\ Goto("audio", "sending", 0, "none")
        /\ UNCHANGED audio_hist
     \/ audio_except
  /\ UNCHANGED <<mainVars, recvVars, cancelReq, interrupted, gap, videoSent>>
  /\ UNCHANGED <<envVars, chunkVars, quizVars>>

\* lines 119-121: the awaited send returns or raises
audio_send_done ==
  /\ pc["audio"] = "sending"
  /\ Ready("audio")
  /\ \/ /\ audio_head
        /\ audio_hist' = IF audio_hist = "clean" THEN "clean" ELSE "resumed"
     \/ audio_except
  /\ UNCHANGED <<mainVars, recvVars, cancelReq, interrupted, gap, videoSent>>
  /\ UNCHANGED <<envVars, chunkVars, quizVars>>

\* lines 101-102 and 125: the sleep is over, back to the loop condition
audio_wake ==
  /\ pc["audio"] \in {"idle_sleep", "backoff"}
  /\ timer["audio"] = 0
  /\ Ready("audio")
  /\ audio_head
  /\ UNCHANGED <<mainVars, recvVars, cancelReq, interrupted, obsVars>>
  /\ UNCHANGED <<envVars, chunkVars, quizVars>>

\* ---- capture_and_send_video ----
\* the loop head, as if the loop were while True
video_head_unchecked == Goto("video", "poll", 0, "video")

\* line 129: while self.running, then line 132 enters get_frame()
video_head ==
  IF running THEN Goto("video", "poll", 0, "video")
             ELSE finish("video", "returned")

\* the handler, as if it handed the frame it holds to the session again
video_except_retry == Goto("video", "sending", 0, "none")

\* the handler, as if it raised the error again
video_except_reraise == finish("video", "raised")

\* lines 153-155
video_except == Goto("video", "backoff", VideoBackoff, "none")

\* the sleep after a frame was sent, as if it were the error backoff
video_after_send_short == Goto("video", "throttle", VideoBackoff, "none")

\* line 151: the sleep after a frame was sent
video_after_send == Goto("video", "throttle", VideoThrottle, "none")

\* lines 134-136: no frame
video_idle == Goto("video", "idle_sleep", VideoIdleSleep, "none")

video_begin ==
  /\ pc["video"] = "new"
  /\ Ready("video")
  /\ video_head
  /\ UNCHANGED <<mainVars, recvVars, cancelReq, interrupted, obsVars>>
  /\ UNCHANGED <<envVars, chunkVars, quizVars>>

\* lines 132-148: get_frame() returns; no frame, or a frame that is resized,
\* encoded and handed to send_realtime_input
video_poll_return ==
  /\ pc["video"] = "poll"
  /\ \/ video_idle
     \/ Goto("video", "sending", 0, "none")
     \/ video_except
  /\ UNCHANGED <<mainVars, recvVars, cancelReq, interrupted, obsVars>>
  /\ UNCHANGED <<envVars, chunkVars, quizVars>>

\* lines 146-151: the awaited send returns or raises
video_send_done ==
  /\ pc["video"] = "sending"
  /\ Ready("video")
  /\ \/ /\ video_after_send
        /\ videoSent' = Min(videoSent + 1, MaxSent)
        /\ gap' = 0
     \/ /\ video_except
        /\ UNCHANGED <<videoSent, gap>>
  /\ UNCHANGED <<mainVars, recvVars, cancelReq, interrupted, audio_hist>>
  /\ UNCHANGED <<envVars, chunkVars, quizVars>>

video_wake ==
  /\ pc["video"] \in Sleeping
  /\ timer["video"] = 0
  /\ Ready("video")
  /\ video_head
  /\ UNCHANGED <<mainVars, recvVars, cancelReq, interrupted, obsVars>>
  /\ UNCHANGED <<envVars, chunkVars, quizVars>>

\* ---- receive_and_play_audio ----
\* line 161: while self.running, then lines 163-165 await the first
\* response of a new turn
recv_head ==
  IF running THEN Goto("recv", "await_event", 0, "none")
             ELSE finish("recv", "returned")

\* lines 194-197
recv_except ==
  /\ Goto("recv", "backoff", RecvBackoff, "none")
  /\ turn_state' = "fresh"

\* lines 161-165: the loop condition is read and receive() is called; ts is
\* the state of the new turn.  An await suspends the coroutine only when
\* what it awaits has to wait: when the new turn is already exhausted the
\* async for ends at once and the loop goes round within the same segment.
recv_loop(ts) ==
  /\ recv_head
  /\ IF running THEN turn_state' \in {ts, "spun"}
                ELSE turn_state' = turn_state

\* the end of a turn, as if it ended the loop
recv_turn_end_returns ==
  /\ finish("recv", "returned")
  /\ UNCHANGED turn_state

\* lines 165 and 161-163: the turn is exhausted, the loop condition is read
\* and receive() is called again
recv_turn_end == recv_loop(IF turn_state = "open" THEN "fresh" ELSE "respun")

\* line 188 returned, as if a completed turn ended the loop
recv_after_push_ends ==
  /\ IF turn_complete THEN finish("recv", "returned")
                      ELSE Goto("recv", "await_event", 0, "none")
  /\ UNCHANGED turn_state

\* lines 190-192 and 165: the turn boundary is printed when the response
\* carries turn_complete, and the next response is awaited
recv_after_push ==
  /\ Goto("recv", "await_event", 0, "none")
  /\ UNCHANGED turn_state

\* line 159, before the loop: the sample-rate query
recv_begin ==
  /\ pc["recv"] = "new"
  /\ Ready("recv")
  /\ \/ finish("recv", "raised") /\ UNCHANGED turn_state
     \/ recv_loop("fresh")
  /\ UNCHANGED <<mainVars, turn_complete, cancelReq, interrupted, obsVars>>
  /\ UNCHANGED <<envVars, chunkVars, quizVars>>

\* lines 165-192: the turn yields a response (with or without audio, with
\* or without turn_complete), ends, or raises
recv_event ==
  /\ pc["recv"] = "await_event"
  /\ Ready("recv")
  /\ \/ \E audio \in BOOLEAN, tc \in BOOLEAN :
          IF ~running
          THEN recv_head /\ UNCHANGED recvVars                   \* line 167
          ELSE IF audio
          THEN \/ /\ Goto("recv", "push", 0, "recv")
                  /\ turn_complete' = tc
                  /\ turn_state' = "open"
               \/ recv_except /\ UNCHANGED turn_complete
          ELSE /\ Goto("recv", "await_event", 0, "none")
               /\ turn_state' = "open"
               /\ UNCHANGED turn_complete
     \/ recv_turn_end /\ UNCHANGED turn_complete
     \/ recv_except /\ UNCHANGED turn_complete
  /\ UNCHANGED <<mainVars, cancelReq, interrupted, obsVars>>
  /\ UNCHANGED <<envVars, chunkVars, quizVars>>

\* line 188: push_audio_sample() returns or raises; then lines 191-192 and
\* the await of the next response
recv_push_return ==
  /\ pc["recv"] = "push"
  /\ \/ recv_after_push
     \/ recv_except
  /\ turn_complete' = FALSE
  /\ UNCHANGED <<mainVars, cancelReq, interrupted, obsVars>>
  /\ UNCHANGED <<envVars, chunkVars, quizVars>>

recv_wake ==
  /\ pc["recv"] = "backoff"
  /\ timer["recv"] = 0
  /\ Ready("recv")
  /\ recv_loop("fresh")
  /\ UNCHANGED <<mainVars, turn_complete, cancelReq, interrupted, obsVars>>
  /\ UNCHANGED <<envVars, chunkVars, quizVars>>

\* ---- cancellation of a duty cycle ----
\* CancelledError is thrown into the await the task is suspended in; it is
\* not an Exception, so no handler of the duty cycles catches it.
cancelled(t) ==
  /\ t \in cancelReq
  /\ blocked = "none"
  /\ pc[t] \in Suspended
  /\ finish(t, "cancelled")
  /\ cancelReq' = cancelReq \ {t}
  /\ UNCHANGED <<mainVars, recvVars, interrupted, obsVars>>
  /\ UNCHANGED <<envVars, chunkVars, quizVars>>

\* ---- time ----
\* time advances to the next moment at which a sleep ends; a device call
\* that has not returned by then has stalled
Pending == {t \in Tasks : pc[t] \in Sleeping /\ timer[t] > 0}
Earliest == CHOOSE d \in {timer[t] : t \in Pending} :
              \A t \in Pending : d <= timer[t]

Tick ==
  /\ Pending # {}
  /\ timer' = [t \in Tasks |-> IF t \in Pending THEN timer[t] - Earliest ELSE timer[t]]
  /\ gap' = Min(gap + Earliest, VideoThrottle)
  /\ stalled' = (blocked # "none")
  /\ UNCHANGED <<mainVars, pc, blocked, handed, recvVars, gatherVars, videoSent,
                 audio_hist>>
  /\ UNCHANGED <<envVars, chunkVars, quizVars>>

Next ==
  \/ main
  \/ start
  \/ connect_done
  \/ run_resume
  \/ stop_close_done
  \/ interrupt
  \/ loop_teardown
  \/ audio_begin
  \/ audio_poll_return
  \/ audio_send_done
  \/ audio_wake
  \/ video_begin
  \/ video_poll_return
  \/ video_send_done
  \/ video_wake
  \/ recv_begin
  \/ recv_event
  \/ recv_push_return
  \/ recv_wake
  \/ \E t \in Tasks : cancelled(t)
  \/ Tick

Spec == Init /\ [][Next]_vars

TypeOK ==
  /\ running \in BOOLEAN
  /\ reachy \in {"none", "created", "entered", "exited"}
  /\ session \in {"none", "open", "closed"}
  /\ m_pc \in {"main", "exit", "idle", "connect", "gather", "closing", "done"}
  /\ \A t \in Tasks : handed[t] \in 0..1
  /\ turn_state \in {"fresh", "open", "respun", "spun"}
  /\ \A t \in Tasks : pc[t] \in {"none", "poll", "push"} \cup Suspended \cup Done
  /\ blocked \in Tasks \cup {"none"}
  /\ Len(log) <= 4

\* ------------------------------------------------------------------------
\* The sample-rate conversions of the two audio duty cycles, applied to one
\* chunk of n_samples samples; a chunk is its length and its sample rate.

\* round(a / b): the nearest integer, the even one of two equally near
RoundDiv(a, b) ==
  LET q == a \div b
      r == a % b
  IN IF 2 * r < b THEN q
     ELSE IF 2 * r > b THEN q + 1
     ELSE IF q % 2 = 0 THEN q ELSE q + 1

\* the length, as if it were rounded to the nearest integer
num_samples_round(len, from_rate, to_rate) == RoundDiv(len * to_rate, from_rate)

\* the length, as if the two rates were exchanged
num_samples_inverted(len, from_rate, to_rate) == (len * from_rate) \div to_rate

\* lines 112 and 181: int(len * to_rate / from_rate); int() drops the
\* fraction of the quotient
num_samples(len, from_rate, to_rate) == (len * to_rate) \div from_rate

\* the conversion, as if the chunk were passed on as the device gave it
capture_convert_skip(chunk) == chunk

\* lines 110-113: resample(mono_samples, num_samples) when the device rate
\* is not 16 kHz; resample returns num_samples samples
capture_convert(chunk) ==
  IF chunk.rate # SAMPLE_RATE_INPUT
  THEN [len |-> num_samples(chunk.len, chunk.rate, SAMPLE_RATE_INPUT),
        rate |-> SAMPLE_RATE_INPUT]
  ELSE chunk

\* lines 179-182: the session's audio, taken to be at 24 kHz, is resampled
\* when the device's output rate is another one
playback_convert(chunk, reachy_output_rate) ==
  IF reachy_output_rate # SAMPLE_RATE_OUTPUT
  THEN [len |-> num_samples(chunk.len, SAMPLE_RATE_OUTPUT, reachy_output_rate),
        rate |-> reachy_output_rate]
  ELSE chunk

\* the length after a conversion between two rates, which is made only
\* when they differ
converted_len(len, from_rate, to_rate) ==
  IF from_rate # to_rate THEN num_samples(len, from_rate, to_rate) ELSE len

chatVars == <<mainVars, taskVars, gatherVars, obsVars, envVars>>

InitResample ==
  /\ InitChat
  /\ InitGame("text")
  /\ api_key = TRUE
  /\ in_rate \in Rates
  /\ out_rate \in Rates
  /\ n_samples \in 1..MaxLen
  /\ up_out = <<>>
  /\ down_out = <<>>
  /\ trip = <<>>

\* lines 105-116 on a chunk from the microphone
capture_resample ==
  /\ up_out = <<>>
  /\ up_out' = <<capture_convert([len |-> n_samples, rate |-> in_rate])>>
  /\ UNCHANGED <<chatVars, quizVars, in_rate, out_rate, n_samples, down_out, trip>>

\* lines 175-185 on a chunk from the session
playback_resample ==
  /\ down_out = <<>>
  /\ down_out' = <<playback_convert([len |-> n_samples,
                                     rate |-> SAMPLE_RATE_OUTPUT], out_rate)>>
  /\ UNCHANGED <<chatVars, quizVars, in_rate, out_rate, n_samples, up_out, trip>>

\* a chunk converted from in_rate to out_rate and back
round_trip ==
  /\ trip = <<>>
  /\ LET there == converted_len(n_samples, in_rate, out_rate)
     IN trip' = <<[there |-> there,
                  back |-> converted_len(there, out_rate, in_rate)]>>
  /\ UNCHANGED <<chatVars, quizVars, in_rate, out_rate, n_samples, up_out, down_out>>

NextResample ==
  \/ capture_resample
  \/ playback_resample
  \/ round_trip

SpecResample == InitResample /\ [][NextResample]_vars

\* ------------------------------------------------------------------------
\* The quiz games: ReachyQuizGame (src/quiz_game.py) and ReachyVoiceQuiz
\* (src/quiz_voice.py).  They are synchronous, so a call runs to its end or
\* to the statement that raises; KeyboardInterrupt can be raised at any
\* statement.

\* what the player typed or what the transcription returned
Heard == {"", " ", "UNCLEAR", "unclear", "8"}
\* replies of check_answer's model call
Replies == {"CORRECT Great job!", "correct", "INCORRECT Not quite", ""}
\* answers to the question whether to play again
Agains == {"yes", "Y", "okay", "no", ""}

\* str.strip() on the texts above
strip(a) == IF a = " " THEN "" ELSE a

\* quiz_game.py 132-134: no text; quiz_voice.py 224 and 235: nothing
\* recorded, or the transcription is "UNCLEAR" or empty
no_answer(g, recorded, heard) ==
  IF g = "text" THEN strip(heard) = ""
  ELSE ~recorded \/ strip(heard) = "UNCLEAR" \/ strip(heard) = ""

\* quiz_game.py 113-114, quiz_voice.py 201-202:
\* result.upper().startswith("CORRECT")
is_correct(result) == strip(result) \in {"CORRECT Great job!", "correct"}

\* quiz_game.py 155-156: the lowered text is one of the listed words;
\* quiz_voice.py 256-262: nothing recorded is False, otherwise the lowered
\* transcription contains "yes", "yeah", "sure" or "ok"
play_again(g, recorded, again) ==
  IF g = "text" THEN strip(again) \in {"yes", "Y"}
  ELSE recorded /\ strip(again) \in {"yes", "okay"}

\* run()'s try block is left: exc is "none" at its end, otherwise what was
\* raised.  quiz_voice.py 301-305: KeyboardInterrupt is caught, then the
\* finally clause.  quiz_game.py 194-196: KeyboardInterrupt is caught and
\* reachy_neutral() is called; there is no finally clause.
leave_run(exc) ==
  IF game = "voice"
  THEN /\ q_pc' = "finally"
       /\ q_exc' = IF exc = "KeyboardInterrupt" THEN "none" ELSE exc
  ELSE /\ q_pc' = "done"
       /\ q_exc' = IF exc = "KeyboardInterrupt" THEN "none" ELSE exc

\* quiz_voice.py 273-275: start_reachy() and the greeting; f is the call
\* that raises or the interrupt during the greeting.  quiz_game.py 167-170:
\* the greeting is outside the try.
QuizStartFailures == {"none", "ReachyMini", "enter", "start_recording",
                      "start_playing", "interrupt"}

quiz_start ==
  /\ q_pc = "run"
  /\ IF game = "voice"
     THEN \E f \in QuizStartFailures :
            /\ q_reachy' = CASE f = "ReachyMini" -> "none"
                             [] f = "enter" -> "created"
                             [] OTHER -> "entered"
            /\ q_recording' = (f \in {"none", "start_playing", "interrupt"})
            /\ q_media_playing' = (f \in {"none", "interrupt"})
            /\ IF f = "none" THEN q_pc' = "loop" /\ UNCHANGED q_exc
               ELSE leave_run(IF f = "interrupt" THEN "KeyboardInterrupt" ELSE "error")
     ELSE /\ \/ q_pc' = "loop" /\ UNCHANGED q_exc
             \/ q_pc' = "done" /\ q_exc' = "KeyboardInterrupt"
          /\ UNCHANGED <<q_reachy, q_recording, q_media_playing>>
  /\ UNCHANGED <<game, score, questions_asked, round_kind, q_playing, stop_reachy_calls>>
  /\ UNCHANGED <<chatVars, chunkVars>>

\* the round without an answer, as if it ended the game
round_no_answer_ends ==
  /\ questions_asked' = questions_asked + 1
  /\ score' = score
  /\ round_kind' = "no_answer"
  /\ q_playing' = FALSE
  /\ q_pc' = "over"
  /\ UNCHANGED q_exc

\* quiz_game.py 125-136, quiz_voice.py 213-226 and 232-238
round_no_answer ==
  /\ questions_asked' = questions_asked + 1
  /\ score' = score
  /\ round_kind' = "no_answer"
  /\ q_playing' = TRUE
  /\ q_pc' = "loop"
  /\ UNCHANGED q_exc

\* quiz_game.py 125-156, quiz_voice.py 213-262: the answer is checked, the
\* score is kept and the player is asked whether to go on
round_answered(correct, more) ==
  /\ questions_asked' = questions_asked + 1
  /\ score' = IF correct THEN score + 1 ELSE score
  /\ round_kind' = IF correct THEN "correct" ELSE "incorrect"
  /\ q_playing' = more
  /\ q_pc' = IF more THEN "loop" ELSE "over"
  /\ UNCHANGED q_exc

\* the round raises: in generate_question (asked is FALSE: line 126 / 214
\* was not reached) or later; scored tells whether line 144 / 244 was
\* executed before
round_raises(asked, scored, exc) ==
  /\ questions_asked' = IF asked THEN questions_asked + 1 ELSE questions_asked
  /\ score' = IF scored THEN score + 1 ELSE score
  /\ round_kind' = "raised"
  /\ q_playing' = q_playing
  /\ leave_run(exc)

\* one call of play_round from the loop of run() (quiz_game.py 171-172,
\* quiz_voice.py 278-279)
play_round ==
  /\ q_pc = "loop"
  /\ questions_asked < MaxRounds
  /\ \/ \E heard \in Heard, recorded \in BOOLEAN :
          IF no_answer(game, recorded, heard)
          THEN round_no_answer
          ELSE \E result \in Replies, again \in Agains, recorded2 \in BOOLEAN :
                 round_answered(is_correct(result), play_again(game, recorded2, again))
     \/ \E asked \in BOOLEAN, scored \in BOOLEAN, exc \in {"error", "KeyboardInterrupt"} :
          /\ scored => asked
          /\ round_raises(asked, scored, exc)
  /\ UNCHANGED <<game, q_reachy, q_recording, q_media_playing, stop_reachy_calls>>
  /\ UNCHANGED <<chatVars, chunkVars>>

\* quiz_game.py 174-192, quiz_voice.py 281-299: the final score and the
\* closing animation, to its end or to an interrupt
game_over ==
  /\ q_pc = "over"
  /\ \/ leave_run("none")
     \/ leave_run("KeyboardInterrupt")
  /\ UNCHANGED <<game, score, questions_asked, round_kind, q_playing, q_reachy,
                 q_recording, q_media_playing, stop_reachy_calls>>
  /\ UNCHANGED <<chatVars, chunkVars>>

\* quiz_voice.py 304: reachy_neutral() in the finally clause.  reachy_move
\* (47-61) catches every Exception of the movement, also the one raised
\* when self.reachy is None; a KeyboardInterrupt during the movement or its
\* sleep is not an Exception and leaves run().
finally_neutral ==
  /\ q_pc = "finally"
  /\ \/ q_pc' = "stopping" /\ UNCHANGED q_exc
     \/ q_pc' = "done" /\ q_exc' = "KeyboardInterrupt"
  /\ UNCHANGED <<game, score, questions_asked, round_kind, q_playing, q_reachy,
                 q_recording, q_media_playing, stop_reachy_calls>>
  /\ UNCHANGED <<chatVars, chunkVars>>

\* quiz_voice.py 305 and 40-45: stop_reachy(); f is the call that raises
stop_reachy ==
  /\ q_pc = "stopping"
  /\ stop_reachy_calls' = stop_reachy_calls + 1
  /\ q_pc' = "done"
  /\ IF q_reachy # "none"
     THEN \E f \in {"none", "stop_recording", "stop_playing", "exit"} :
            /\ q_recording' = IF f = "stop_recording" THEN q_recording ELSE FALSE
            /\ q_media_playing' =
                 IF f \in {"stop_recording", "stop_playing"} THEN q_media_playing
                 ELSE FALSE
            /\ q_reachy' = IF f = "none" THEN "exited" ELSE q_reachy
            /\ q_exc' = IF f = "none" THEN q_exc ELSE "error"
     ELSE UNCHANGED <<q_reachy, q_recording, q_media_playing, q_exc>>
  /\ UNCHANGED <<game, score, questions_asked, round_kind, q_playing>>
  /\ UNCHANGED <<chatVars, chunkVars>>

InitQuiz ==
  /\ InitChat
  /\ api_key = TRUE
  /\ in_rate = SAMPLE_RATE_INPUT
  /\ out_rate = SAMPLE_RATE_INPUT
  /\ n_samples = 1
  /\ up_out = <<>>
  /\ down_out = <<>>
  /\ trip = <<>>
  /\ \E g \in {"text", "voice"} : InitGame(g)

NextQuiz ==
  \/ quiz_start
  \/ play_round
  \/ game_over
  \/ finally_neutral
  \/ stop_reachy

SpecQuiz == InitQuiz /\ [][NextQuiz]_vars

\* ------------------------------------------------------------------------
\* Properties.

Count(lg, x) == Cardinality({i \in 1..Len(lg) : lg[i] = x})
CleanupCalls == {"close", "stop_recording", "stop_playing", "exit"}
Alive(t) == pc[t] \notin Done \cup {"none"}
\* a sleep of u is over and u waits for the loop to resume it
Due(u) == pc[u] \in Sleeping /\ timer[u] = 0 /\ u \notin cancelReq

\* C1: running is set and the duty cycles are launched only after the device
\* part of start() and the connect have both succeeded; when either fails,
\* stop() has run, running was never set, no duty cycle exists and run()
\* ends with an exception.
C1_StartGate ==
  /\ (running \/ \E t \in Tasks : pc[t] # "none") =>
       /\ start_failed = "none"
       /\ reachy \in {"entered", "exited"}
       /\ session # "none"
  /\ start_failed # "none" =>
       /\ ~running
       /\ session = "none"
       /\ \A t \in Tasks : pc[t] = "none"
       /\ stopCalls = 1
       /\ m_pc = "done"
       /\ run_exc \in {"start_error", "stop_error"}

C1_Witness == start_failed = "connect" /\ m_pc = "done" /\ run_exc = "start_error"

\* C2: when run() has ended, the session that was opened has been closed
\* exactly once and the device that was created has had stop_recording,
\* stop_playing and its release called exactly once each.
C2_CleanupExactlyOnce ==
  m_pc = "done" =>
    /\ session # "none" => Count(log, "close") = 1
    /\ reachy # "none" =>
         \A x \in {"stop_recording", "stop_playing", "exit"} : Count(log, x) = 1

\* C3: when connect fails, no duty cycle ever starts and the cleanup is
\* attempted exactly once: stop() is entered once, it begins the device
\* cleanup once, and no cleanup call is made twice.
C3_ConnectFailure ==
  start_failed = "connect" =>
    /\ \A t \in Tasks : pc[t] = "none"
    /\ ~running
    /\ m_pc = "done"
    /\ stopCalls = 1
    /\ Count(log, "stop_recording") = 1
    /\ \A x \in CleanupCalls : Count(log, x) <= 1

C3_Witness == start_failed = "connect" /\ stopCalls = 1 /\ Len(log) = 3

\* C4: no cleanup call of stop() (session.close(), stop_recording,
\* stop_playing, the device release) is made while a duty cycle is still
\* running.
C4_StopWaits == log # <<>> => \A t \in Tasks : ~Alive(t)

\* C5: cleanup is ordered and best-effort: session.close() is called first
\* and, whatever becomes of that call, stop() goes on to the device and
\* calls stop_recording.
C5_BestEffortCleanup ==
  (m_pc = "done" /\ reachy # "none" /\ Count(log, "close") >= 1) =>
     /\ log[1] = "close"
     /\ Count(log, "stop_recording") = 1

\* C6 as stated: without a shutdown request, an error in one duty cycle
\* never makes another duty cycle terminate.
C6_Isolation ==
  ~interrupted =>
     \A t, u \in Tasks :
        (t # u /\ pc[u] = "raised") => pc[t] \notin {"returned", "cancelled"}

\* C6 as amended: a duty cycle ends only by the sample-rate query before its
\* loop raising, by finding running false, or by cancellation; an error in
\* the try block of a loop body ends no duty cycle.
C6_TryIsolation ==
  [][\A t \in Tasks :
       (pc[t] \notin Done /\ pc'[t] \in Done) =>
          \/ pc[t] = "new" /\ pc'[t] = "raised" /\ t \in {"audio", "recv"}
          \/ ~running /\ pc'[t] = "returned"
          \/ t \in cancelReq /\ pc'[t] = "cancelled"]_vars

C6_Witness ==
  /\ ~interrupted
  /\ pc["recv"] = "raised"
  /\ audio_hist # "clean"
  /\ pc["audio"] = "returned"

\* C7: an iteration of audio-up that fails is logged and followed by the
\* backoff, and audio-up goes on: it ends by an exception only at the
\* sample-rate query before any iteration, and it returns only when running
\* is false.
C7_AudioSelfHealing ==
  /\ pc["audio"] = "raised" => audio_hist = "clean"
  /\ pc["audio"] = "returned" => ~running
  /\ pc["audio"] = "backoff" =>
       audio_hist = "error" /\ timer["audio"] <= AudioBackoff
  /\ (running /\ audio_hist # "clean") => pc["audio"] \notin {"raised", "returned"}

C7_Witness == running /\ audio_hist = "resumed" /\ pc["audio"] = "sending"

\* C8: when running has been cleared, audio-down is not left waiting for
\* the next response of a turn: it has exited before session.close() is
\* called.
C8_ExitBeforeClose ==
  Count(log, "close") >= 1 => pc["recv"] # "await_event"

\* C9: while a device call of one duty cycle stalls, another duty cycle
\* whose sleep is over can be resumed.
C9_NoBlocking ==
  (blocked # "none" /\ stalled) =>
     /\ (blocked # "audio" /\ Due("audio")) => ENABLED audio_wake
     /\ (blocked # "video" /\ Due("video")) => ENABLED video_wake
     /\ (blocked # "recv" /\ Due("recv")) => ENABLED recv_wake

\* C10: once a frame has been sent, video-up polls and sends the next one
\* no earlier than a full throttle interval after it: the sleep that
\* follows a send covers the whole interval.
C10_Throttle ==
  /\ (videoSent >= 1 /\ pc["video"] \in {"poll", "sending"}) => gap >= VideoThrottle
  /\ (videoSent >= 1 /\ pc["video"] = "throttle") =>
        gap + timer["video"] >= VideoThrottle

C10_Witness == videoSent >= 2 /\ gap = 0

IdleSleep(t) == IF t = "audio" THEN AudioIdleSleep ELSE VideoIdleSleep
Backoff(t) ==
  CASE t = "audio" -> AudioBackoff
    [] t = "video" -> VideoBackoff
    [] OTHER -> RecvBackoff

\* C11: an empty poll of audio-up or video-up leads from the poll to the
\* idle sleep of the full length, with nothing handed to the session, the
\* error history and running untouched; the idle sleep is left only when
\* it is over, for the next poll while running is set and for the end of
\* the loop when it is cleared, or by a cancellation.
C11_IdlePoll ==
  [][\A t \in {"audio", "video"} :
       /\ (pc[t] # "idle_sleep" /\ pc'[t] = "idle_sleep") =>
             /\ pc[t] = "poll"
             /\ timer'[t] = IdleSleep(t)
             /\ handed'[t] = 0
             /\ running' = running
             /\ audio_hist' = audio_hist
             /\ videoSent' = videoSent
       /\ (pc[t] = "idle_sleep" /\ pc'[t] # "idle_sleep") =>
             \/ timer[t] = 0 /\ running /\ pc'[t] = "poll"
             \/ timer[t] = 0 /\ ~running /\ pc'[t] = "returned"
             \/ t \in cancelReq /\ pc'[t] = "cancelled"]_vars

C11_Witness ==
  /\ pc["audio"] = "idle_sleep"
  /\ pc["video"] = "idle_sleep"
  /\ running
  /\ audio_hist = "clean"
  /\ videoSent = 0

\* C12: once audio-down is in its loop it ends only by returning with
\* running cleared or by a cancellation; it calls receive() (again) only
\* while running is set, after the end of a turn and after the sleep that
\* follows an error.
C12_ReceiveAgain ==
  [][/\ (pc["recv"] \in {"await_event", "push", "backoff"} /\ pc'["recv"] \in Done) =>
          \/ pc'["recv"] = "returned" /\ ~running
          \/ pc'["recv"] = "cancelled" /\ "recv" \in cancelReq
     /\ (pc["recv"] # "await_event" /\ pc'["recv"] = "await_event") => running
     /\ (turn_state' # turn_state /\ turn_state' \in {"fresh", "respun", "spun"}
           /\ pc'["recv"] = "await_event") => running]_vars

C12_Witness == pc["recv"] = "await_event" /\ turn_state = "respun" /\ running

C14_DropBadFrame ==
  /\ pc["video"] # "raised"
  /\ pc["video"] = "returned" => ~running
  /\ pc["video"] = "backoff" => handed["video"] = 0 /\ timer["video"] <= VideoBackoff
  /\ pc["video"] = "sending" => handed["video"] = 1
  /\ handed["video"] <= 1

C14_Witness ==
  pc["video"] = "backoff" /\ timer["video"] = 0 /\ running /\ videoSent >= 1

\* C15: the chunk handed to the session is at 16 kHz and the chunk handed
\* to playback is at the device's output rate, whatever the device rates;
\* at that rate it lasts as long as the chunk it was made from, less than
\* one sample short.
C15_WireRates ==
  /\ up_out # <<>> =>
       /\ up_out[1].rate = SAMPLE_RATE_INPUT
       /\ up_out[1].len * in_rate <= n_samples * SAMPLE_RATE_INPUT
       /\ n_samples * SAMPLE_RATE_INPUT < (up_out[1].len + 1) * in_rate
  /\ down_out # <<>> =>
       /\ down_out[1].rate = out_rate
       /\ down_out[1].len * SAMPLE_RATE_OUTPUT <= n_samples * out_rate
       /\ n_samples * out_rate < (down_out[1].len + 1) * SAMPLE_RATE_OUTPUT

C15_Witness ==
  /\ up_out # <<>> /\ in_rate # SAMPLE_RATE_INPUT
  /\ down_out # <<>> /\ out_rate # SAMPLE_RATE_OUTPUT

\* C16: without the key main() returns at once: no chat object runs, no
\* device is acquired, no session is opened, no duty cycle exists and no
\* cleanup is made.
C16_NoPartialRun ==
  ~api_key =>
    /\ m_pc \in {"main", "exit"}
    /\ reachy = "none" /\ ~recording /\ ~playing
    /\ session = "none"
    /\ ~running
    /\ stopCalls = 0 /\ log = <<>>
    /\ \A t \in Tasks : pc[t] = "none"

C16_Witness == ~api_key /\ m_pc = "exit"

\* C17: running becomes true only in the step that ends start() and
\* launches the duty cycles, before any stop(); it becomes false only in a
\* step that enters stop(); it is false ever after stop() was entered; no
\* step of a duty cycle changes it.
C17_RunningWriters ==
  /\ [](stopCalls >= 1 => ~running)
  /\ [][/\ (~running /\ running') =>
             m_pc = "connect" /\ m_pc' = "gather" /\ stopCalls' = 0
        /\ (running /\ ~running') => stopCalls' = stopCalls + 1
        /\ (pc' # pc /\ m_pc' = m_pc) => running' = running]_vars

C17_Witness == ~running /\ stopCalls = 1 /\ session # "none"

\* C18: a duty cycle that sleeps after a failed iteration sleeps no longer
\* than its backoff, and audio-down never calls receive() again straight
\* after a turn that ended without yielding anything.
C18_BackoffAfterFailure ==
  /\ \A t \in Tasks : pc[t] = "backoff" => timer[t] <= Backoff(t)
  /\ turn_state # "respun"

\* C19, as stated: the converted chunk has round(len * toRate / fromRate)
\* samples when the rates differ.
C19_RoundedLength ==
  /\ (up_out # <<>> /\ in_rate # SAMPLE_RATE_INPUT) =>
       up_out[1].len = RoundDiv(n_samples * SAMPLE_RATE_INPUT, in_rate)
  /\ (down_out # <<>> /\ out_rate # SAMPLE_RATE_OUTPUT) =>
       down_out[1].len = RoundDiv(n_samples * out_rate, SAMPLE_RATE_OUTPUT)

\* C19: the converted chunk has len * toRate / fromRate samples with the
\* fraction dropped when the rates differ.
C19_TruncatedLength ==
  /\ (up_out # <<>> /\ in_rate # SAMPLE_RATE_INPUT) =>
       up_out[1].len = (n_samples * SAMPLE_RATE_INPUT) \div in_rate
  /\ (down_out # <<>> /\ out_rate # SAMPLE_RATE_OUTPUT) =>
       down_out[1].len = (n_samples * out_rate) \div SAMPLE_RATE_OUTPUT

C19_Witness ==
  /\ up_out # <<>> /\ in_rate # SAMPLE_RATE_INPUT
  /\ (n_samples * SAMPLE_RATE_INPUT) % in_rate # 0
  /\ up_out[1].len >= 1
  /\ down_out # <<>> /\ out_rate # SAMPLE_RATE_OUTPUT
  /\ (n_samples * out_rate) % SAMPLE_RATE_OUTPUT # 0

\* C20, as stated: a chunk converted to another rate and back has its
\* length within one sample of the original.
C20_RoundTripWithinOne ==
  trip # <<>> => trip[1].back - n_samples \in -1..1

\* C20: a chunk of n samples converted from r1 to r2 and back has at most
\* n samples and is less than r1/r2 + 1 samples short; it is at most one
\* sample short when r2 >= r1.
C20_RoundTripBound ==
  trip # <<>> =>
    /\ trip[1].back <= n_samples
    /\ (n_samples - trip[1].back) * out_rate < in_rate + out_rate
    /\ out_rate >= in_rate => n_samples - trip[1].back <= 1

C20_Witness ==
  trip # <<>> /\ in_rate # out_rate /\ n_samples - trip[1].back >= 2

\* C21: the step in which audio-down finishes a response that carries
\* turn_complete takes it to the await of the next response (or to its
\* backoff when the push raised) and changes nothing else: not running, the
\* session, the device, the cleanup, the gather future, nor the position,
\* sleep or item of audio-up and video-up.
C21_TurnCompleteObservational ==
  [][(pc["recv"] = "push" /\ turn_complete /\ pc'["recv"] # "push") =>
       /\ pc'["recv"] \in {"await_event", "backoff"}
       /\ ~turn_complete'
       /\ UNCHANGED <<mainVars, gatherVars, obsVars>>
       /\ \A t \in {"audio", "video"} :
            pc'[t] = pc[t] /\ timer'[t] = timer[t] /\ handed'[t] = handed[t]]_vars

C21_Witness == pc["recv"] = "push" /\ turn_complete /\ running

\* C22: while running is false no duty cycle hands an item to the session
\* or to playback, and audio-down neither enters the await of a response
\* nor calls receive() for a new turn.
C22_NoNewOperation ==
  [][~running =>
       /\ \A t \in Tasks : handed'[t] <= handed[t]
       /\ \A t \in Tasks : pc'[t] \in {"sending", "push"} => pc[t] = pc'[t]
       /\ pc'["recv"] = "await_event" =>
            pc["recv"] = "await_event" /\ turn_state' = turn_state]_vars

C22_Witness ==
  /\ ~running /\ stopCalls = 1
  /\ pc["audio"] = "raised" /\ pc["video"] = "sending" /\ pc["recv"] = "await_event"

\* C23: while running is true the device is entered with recording and
\* playback started, the session is open, and stop() has neither been
\* entered nor made any cleanup call.
C23_RunningImpliesLive ==
  running =>
    /\ reachy = "entered" /\ recording /\ playing
    /\ session = "open"
    /\ stopCalls = 0 /\ log = <<>>
    /\ m_pc = "gather"

C23_Witness == running /\ \A t \in Tasks : pc[t] \notin Done \cup {"none", "new"}

\* C24: audio-down never begins an iteration of its loop without having
\* been suspended in the previous one.
C24_IterationYields == turn_state # "spun"

\* C25: in both games 0 <= score <= questions_asked always; a round that
\* returns adds exactly one to questions_asked and at most one to score; a
\* round without an answer leaves score as it was and returns True, so the
\* loop goes on; a round that raises adds at most one to each.
C25_ScoreBounds ==
  /\ [](0 <= score /\ score <= questions_asked)
  /\ [](round_kind = "no_answer" => q_playing)
  /\ [][q_pc = "loop" =>
          /\ round_kind' \in {"no_answer", "correct", "incorrect"} =>
               /\ questions_asked' = questions_asked + 1
               /\ score' \in {score, score + 1}
          /\ round_kind' = "no_answer" =>
               score' = score /\ q_playing' /\ q_pc' = "loop"
          /\ round_kind' = "raised" =>
               /\ questions_asked' \in {questions_asked, questions_asked + 1}
               /\ score' \in {score, score + 1}]_vars

C25_Witness ==
  /\ game = "voice" /\ q_pc = "loop"
  /\ round_kind = "no_answer" /\ questions_asked = 2 /\ score = 1

\* C26: when ReachyVoiceQuiz.run has ended, stop_reachy was entered exactly
\* once, and the device, if its object was created, is no longer recording
\* or playing and has been released.
C26_StopReachyOnce ==
  (game = "voice" /\ q_pc = "done") =>
    /\ stop_reachy_calls = 1
    /\ q_reachy # "none" =>
         q_reachy = "exited" /\ ~q_recording /\ ~q_media_playing
    /\ q_reachy = "none" => ~q_recording /\ ~q_media_playing

====
